---- MODULE Spec2Model ----
(***************************************************************************)
(* Entwine point-cloud index: the linear address function and Branch of    *)
(* entwine/tree/branch.cpp, and the SleepyTree facade of                   *)
(* entwine/tree/sleepy-tree.cpp (insert, save, load, numPoints, getPoints).*)
(*                                                                         *)
(* std::size_t is modelled as an unsigned integer of IndexBits bits; all   *)
(* arithmetic on it is taken modulo 2^IndexBits, as unsigned arithmetic in *)
(* C++ is.  The width is scaled down so that the whole index space can be  *)
(* enumerated; nothing below depends on the particular width.              *)
(***************************************************************************)
EXTENDS Integers, Sequences, FiniteSets, TLC

\* ------------------------------------------------------------------ bounds

IndexBits == 8
MaxDim == 3
MaxDepth == 9
MaxBufLen == 2
MaxInserts == 2
NumThreads == 2

Pow2(n) == 2 ^ n

\* Number of values of the index type (one more than its largest value).
IndexLimit == Pow2(IndexBits)

IndexType == 0 .. (IndexLimit - 1)

Min(a, b) == IF a < b THEN a ELSE b

\* ------------------------------------------------ branch.cpp: getOffset

\* offset << dimensions on an unsigned IndexBits-bit integer
\* (dimensions < IndexBits throughout, so the shift itself is defined).
ShiftLeft(x, n) == (x * Pow2(n)) % IndexLimit

\* One iteration of the loop body: offset = (offset << dimensions) + 1.
OffsetStep_NoPlusOne(offset, dimensions) == ShiftLeft(offset, dimensions)

OffsetStep(offset, dimensions) == (ShiftLeft(offset, dimensions) + 1) % IndexLimit

RECURSIVE getOffsetLoop(_, _, _, _)
getOffsetLoop(offset, i, depth, dimensions) ==
    IF i < depth
        THEN getOffsetLoop(OffsetStep(offset, dimensions), i + 1, depth, dimensions)
        ELSE offset

getOffset(depth, dimensions) == getOffsetLoop(0, 0, depth, dimensions)

\* ------------------------------------------------ jsoncpp values

JsonNull == [t |-> "null"]

JsonUInt(v) == [t |-> "uint", v |-> v]

\* static_cast<Json::UInt64>(std::size_t): both are unsigned words of the
\* same width on the platform.
ToJsonUInt(x) == JsonUInt(x % IndexLimit)

\* Json::Value::asUInt64: a null value converts to 0.
asUInt64(j) == IF j.t = "uint" THEN j.v ELSE 0

EmptyNode == [k \in {} |-> JsonNull]

\* Json::Value::operator[] read of a missing member yields null.
Member(node, key) == IF key \in DOMAIN node THEN node[key] ELSE JsonNull

SetMember(node, key, val) ==
    [k \in (DOMAIN node) \cup {key} |-> IF k = key THEN val ELSE node[k]]

\* ------------------------------------------------ branch.cpp: Branch

Branch(dimensions, depthBegin, depthEnd) ==
    [ depthBegin |-> depthBegin,
      depthEnd   |-> depthEnd,
      indexBegin |-> getOffset(depthBegin, dimensions),
      indexEnd   |-> getOffset(depthEnd, dimensions) ]

BranchFromMeta_SwapKeys(dimensions, meta) ==
    Branch(dimensions,
           asUInt64(Member(meta, "depthEnd")),
           asUInt64(Member(meta, "depthBegin")))

BranchFromMeta(dimensions, meta) ==
    Branch(dimensions,
           asUInt64(Member(meta, "depthBegin")),
           asUInt64(Member(meta, "depthEnd")))

accepts(br, index) == (index >= br.indexBegin) /\ (index < br.indexEnd)

\* m_indexEnd - m_indexBegin in unsigned arithmetic.
size(br) == (br.indexEnd - br.indexBegin + IndexLimit) % IndexLimit

\* Tier strategy's saveImpl(path, meta): physical persistence of the tier's
\* slots; the metadata node is handed on as Branch::save left it.
saveImpl(br, meta) == meta

\* Branch::save: the two assignments into the metadata node, then saveImpl.
BranchSave(br, meta) ==
    saveImpl(br,
        SetMember(SetMember(meta, "depthBegin", ToJsonUInt(br.depthBegin)),
                  "depthEnd", ToJsonUInt(br.depthEnd)))

\* Registry construction from the three tier depth boundaries: one Branch
\* per tier over [0, base), [base, flat), [flat, disk).
RegistryBranches(dimensions, baseDepth, flatDepth, diskDepth) ==
    << Branch(dimensions, 0, baseDepth),
       Branch(dimensions, baseDepth, flatDepth),
       Branch(dimensions, flatDepth, diskDepth) >>

\* ------------------------------------------------ geometry and schema

\* Two coordinates are read per sample (point.x, point.y).
TreeDim == 2

\* Bounding box with integer corners; a point on the lower edge is inside, a
\* point on the upper edge is outside.
BBoxOf(minX, minY, maxX, maxY) == [min |-> <<minX, minY>>, max |-> <<maxX, maxY>>]

contains(bbox, point) ==
    /\ bbox.min[1] <= point[1] /\ point[1] < bbox.max[1]
    /\ bbox.min[2] <= point[2] /\ point[2] < bbox.max[2]

JsonArray(a) == [t |-> "array", a |-> a]

JsonString(str) == [t |-> "string", s |-> str]

JsonObject(node) == [t |-> "object", m |-> node]

\* Json::Value::get(index, default): the element, or the default when the
\* value is no array or is too short.
GetOr(j, i, default) ==
    IF j.t = "array" /\ i \in DOMAIN j.a THEN j.a[i] ELSE default

\* operator[] on a value that is no object yields null.
MemberOf(j, key) == IF j.t = "object" THEN Member(j.m, key) ELSE JsonNull

BBoxToJson(bbox) == JsonArray(<<bbox.min[1], bbox.min[2], bbox.max[1], bbox.max[2]>>)

BBoxFromJson(j) == BBoxOf(GetOr(j, 1, 0), GetOr(j, 2, 0), GetOr(j, 3, 0), GetOr(j, 4, 0))

SchemaToJson(schema) == JsonString(schema)

SchemaFromJson(j) == IF j.t = "string" THEN j.s ELSE ""

\* ------------------------------------------------ Roller

RootRoller(bbox) == [bbox |-> bbox, depth |-> 0, index |-> 0]

Mid(bbox, axis) == (bbox.min[axis] + bbox.max[axis]) \div 2

\* advance(point): the child quadrant holding the point, by midpoint split.
Advance(roller, point) ==
    LET b == roller.bbox
        east == point[1] >= Mid(b, 1)
        north == point[2] >= Mid(b, 2)
        slot == (IF east THEN 1 ELSE 0) + (IF north THEN 2 ELSE 0)
    IN  [ bbox  |-> BBoxOf(IF east THEN Mid(b, 1) ELSE b.min[1],
                           IF north THEN Mid(b, 2) ELSE b.min[2],
                           IF east THEN b.max[1] ELSE Mid(b, 1),
                           IF north THEN b.max[2] ELSE Mid(b, 2)),
          depth |-> roller.depth + 1,
          index |-> (ShiftLeft(roller.index, TreeDim) + 1 + slot) % IndexLimit ]

\* Four times the squared distance of a point to the centre of a bbox.
Dist2(point, bbox) ==
    LET dx == 2 * point[1] - (bbox.min[1] + bbox.max[1])
        dy == 2 * point[2] - (bbox.min[2] + bbox.max[2])
    IN  dx * dx + dy * dy

\* ------------------------------------------------ Registry

NoSlots == [k \in {} |-> 0]

Store(occ, index, info) ==
    [k \in (DOMAIN occ) \cup {index} |-> IF k = index THEN info ELSE occ[k]]

Registry(baseDepth, flatDepth, diskDepth) ==
    [ depths   |-> <<baseDepth, flatDepth, diskDepth>>,
      branches |-> RegistryBranches(TreeDim, baseDepth, flatDepth, diskDepth),
      occ      |-> NoSlots,
      putCalls |-> 0 ]

Owners(reg, index) == { j \in DOMAIN reg.branches : accepts(reg.branches[j], index) }

\* Placement: one occupant per cell; the point closer to the cell's centre
\* keeps the cell (the occupant on a tie), the other descends one level.  A
\* chain that leaves the last tier is dropped and ingestion goes on.
RECURSIVE PutLoop(_, _, _)
PutLoop(reg, info, roller) ==
    IF Owners(reg, roller.index) = {}
        THEN reg
    ELSE IF roller.index \notin DOMAIN reg.occ
        THEN [reg EXCEPT !.occ = Store(reg.occ, roller.index, info)]
    ELSE LET occupant == reg.occ[roller.index]
             wins == Dist2(info.point, roller.bbox) < Dist2(occupant.point, roller.bbox)
             keep == IF wins THEN info ELSE occupant
             loser == IF wins THEN occupant ELSE info
         IN  PutLoop([reg EXCEPT !.occ = Store(reg.occ, roller.index, keep)],
                     loser, Advance(roller, loser.point))

RegistryPut(reg, info, roller) ==
    PutLoop([reg EXCEPT !.putCalls = reg.putCalls + 1], info, roller)

\* Depth of a node index: the d with getOffset(d) <= index < getOffset(d + 1).
RECURSIVE DepthFrom(_, _)
DepthFrom(index, d) ==
    IF d >= MaxDepth \/ index < getOffset(d + 1, TreeDim)
        THEN d
        ELSE DepthFrom(index, d + 1)

DepthOfIndex(index) == DepthFrom(index, 0)

\* Query: every resident occupant whose depth lies in [depthBegin, depthEnd),
\* tagged with the tier that owns its cell.
RegistryGetPoints(reg, depthBegin, depthEnd) ==
    { <<q[1], q[2], reg.occ[q[2]]>> :
        q \in { r \in (DOMAIN reg.branches) \X (DOMAIN reg.occ) :
                  /\ accepts(reg.branches[r[1]], r[2])
                  /\ depthBegin <= DepthOfIndex(r[2])
                  /\ DepthOfIndex(r[2]) < depthEnd } }

\* Registry::save: one metadata record per Branch, in ascending depth order.
RegistrySaveMeta(reg) ==
    JsonArray([j \in DOMAIN reg.branches |->
                  JsonObject(BranchSave(reg.branches[j], EmptyNode))])

\* Registry::load: each owned Branch loads the slots of its own index range.
RegistryLoad(reg, data, registryMeta) ==
    [reg EXCEPT !.occ = [index \in { i \in DOMAIN data : Owners(reg, i) # {} } |-> data[index]]]

\* ------------------------------------------------ sleepy-tree.cpp

\* SleepyTree(dir, bbox, schema, baseDepth, flatDepth, diskDepth)
SleepyTree(bbox, schema, baseDepth, flatDepth, diskDepth) ==
    [ bbox      |-> bbox,
      schema    |-> schema,
      numPoints |-> 0,
      registry  |-> Registry(baseDepth, flatDepth, diskDepth) ]

PointInfo(point, origin) == [point |-> point, origin |-> origin]

\* Body of the loop of SleepyTree::insert for sample i of the buffer.
InsertSample_CountPlaced(t, buffer, i, origin) ==
    IF contains(t.bbox, buffer[i])
        THEN LET reg == RegistryPut(t.registry, PointInfo(buffer[i], origin),
                                    RootRoller(t.bbox))
             IN  [t EXCEPT !.registry = reg,
                           !.numPoints =
                               IF DOMAIN reg.occ # DOMAIN t.registry.occ
                                   THEN (t.numPoints + 1) % IndexLimit
                                   ELSE t.numPoints]
        ELSE t

InsertSample_CountAll(t, buffer, i, origin) ==
    IF contains(t.bbox, buffer[i])
        THEN [t EXCEPT !.registry = RegistryPut(t.registry, PointInfo(buffer[i], origin),
                                                RootRoller(t.bbox)),
                       !.numPoints = (t.numPoints + 1) % IndexLimit]
        ELSE [t EXCEPT !.numPoints = (t.numPoints + 1) % IndexLimit]

InsertSample(t, buffer, i, origin) ==
    IF contains(t.bbox, buffer[i])
        THEN [t EXCEPT !.registry = RegistryPut(t.registry, PointInfo(buffer[i], origin),
                                                RootRoller(t.bbox)),
                       !.numPoints = (t.numPoints + 1) % IndexLimit]
        ELSE t

numPoints(t) == t.numPoints

getBounds(t) == t.bbox

getPoints(t, depthBegin, depthEnd) == RegistryGetPoints(t.registry, depthBegin, depthEnd)

\* SleepyTree::addMeta
addMeta(t, meta) ==
    SetMember(SetMember(meta, "bbox", BBoxToJson(t.bbox)),
              "schema", SchemaToJson(t.schema))

\* The document SleepyTree::save assembles: addMeta, then Registry::save into
\* the "registry" member.
SaveDocument(t) ==
    SetMember(addMeta(t, EmptyNode), "registry", RegistrySaveMeta(t.registry))

\* Json::Value::toStyledString: the members in key order between braces.
OpenTok == [tok |-> "open"]

CloseTok == [tok |-> "close"]

MemberTok(key, val) == [tok |-> "member", key |-> key, val |-> val]

KeyOrder == <<"bbox", "registry", "schema", "tree">>

RECURSIVE MemberToks(_, _)
MemberToks(node, n) ==
    IF n > Len(KeyOrder) THEN <<>>
    ELSE (IF KeyOrder[n] \in DOMAIN node
              THEN <<MemberTok(KeyOrder[n], node[KeyOrder[n]])>>
              ELSE <<>>) \o MemberToks(node, n + 1)

toStyledString(node) == <<OpenTok>> \o MemberToks(node, 1) \o <<CloseTok>>

\* Json::Reader::parse: succeeds on a complete document; on a failure the root
\* keeps the members read before the error.
ParseOk(text) ==
    /\ Len(text) >= 2
    /\ text[1] = OpenTok
    /\ text[Len(text)] = CloseTok
    /\ \A n \in 2 .. (Len(text) - 1) : text[n].tok = "member"

RECURSIVE ParseMembers(_, _, _)
ParseMembers(text, n, node) ==
    IF n > Len(text) \/ text[n].tok # "member" THEN node
    ELSE ParseMembers(text, n + 1, SetMember(node, text[n].key, text[n].val))

ParseRoot(text) ==
    IF Len(text) >= 1 /\ text[1] = OpenTok THEN ParseMembers(text, 2, EmptyNode) ELSE EmptyNode

NoFile == [exists |-> FALSE]

FileOf(text) == [exists |-> TRUE, text |-> text]

\* SleepyTree::load once the stream is open: parse (result unused), then
\* rebuild bbox, schema and Registry from the members, then Registry::load.
LoadFrom(text, data) ==
    LET meta == ParseRoot(text)
        treeMeta == Member(meta, "tree")
        reg == Registry(asUInt64(MemberOf(treeMeta, "baseDepth")),
                        asUInt64(MemberOf(treeMeta, "flatDepth")),
                        asUInt64(MemberOf(treeMeta, "diskDepth")))
    IN  [ bbox      |-> BBoxFromJson(Member(meta, "bbox")),
          schema    |-> SchemaFromJson(Member(meta, "schema")),
          numPoints |-> 0,
          registry  |-> RegistryLoad(reg, data, Member(meta, "registry")) ]

\* ------------------------------------------------------------------ state

VARIABLES
    dimensions,   \* dimensionality handed to the Branch constructors
    depths,       \* <<baseDepth, flatDepth, diskDepth>>
    branches,     \* the Branches as constructed (<<>> before construction)
    branchMeta,   \* one metadata node per Branch, as written by Branch::save
    reBranches,   \* the Branches reconstructed from branchMeta
    tree,         \* the SleepyTree instance ingesting points
    pc,           \* where that instance is: idle, insert, saveOpen, saveWrite, crashed
    cur,          \* the insert call in progress: buffer, origin, loop index i
    calls,        \* insert calls made so far
    accepted,     \* samples processed so far that the root bbox contains
    pending,      \* jsonMeta of the save in progress
    metaFile,     \* the file <dir>/meta
    dirData,      \* the slots persisted under <dir> by the tiers
    lastDoc,      \* text of the last save that ran to completion (<<>>: none)
    synced,       \* the last save completed and no insert was made since
    fresh,        \* the instance constructed from <dir> by SleepyTree(dir)
    loadResult,   \* outcome of that construction: none, ok, error
    thr           \* concurrent ingestion: per thread, its buffer and position

bvars == <<dimensions, depths, branches, branchMeta, reBranches>>

fvars == <<tree, pc, cur, calls, accepted, pending, metaFile, dirData, lastDoc,
           synced, fresh, loadResult>>

vars == <<bvars, fvars, thr>>

\* ----------------------------------------------- inputs

RootBBox == BBoxOf(0, 0, 8, 8)

RootSchema == "XY"

\* Two points of the south-west quadrant, and one outside the root bbox.
Samples == { <<2, 2>>, <<1, 1>>, <<9, 1>> }

Origins == 0 .. 1

Buffers == UNION { [1 .. n -> Samples] : n \in 0 .. MaxBufLen }

TierConfigs == { <<0, 1, 2>>, <<1, 1, 1>> }

NoTree == [none |-> TRUE]

NoCall == [buf |-> <<>>, origin |-> 0, i |-> 0]

Threads == 1 .. NumThreads

InitFacadeIdle ==
    /\ pc = "idle"
    /\ cur = NoCall
    /\ calls = 0
    /\ accepted = 0
    /\ pending = EmptyNode
    /\ metaFile = NoFile
    /\ dirData = NoSlots
    /\ lastDoc = <<>>
    /\ synced = FALSE
    /\ fresh = NoTree
    /\ loadResult = "none"

InitBranchIdle ==
    /\ dimensions = TreeDim
    /\ depths = <<0, 0, 0>>
    /\ branches = <<>>
    /\ branchMeta = <<>>
    /\ reBranches = <<>>

\* ----------------------------------------------- Branch life cycle

DepthTriples ==
    { t \in (0 .. MaxDepth) \X (0 .. MaxDepth) \X (0 .. MaxDepth) :
        t[1] <= t[2] /\ t[2] <= t[3] }

InitBranch ==
    /\ dimensions \in 1 .. MaxDim
    /\ depths \in DepthTriples
    /\ branches = <<>>
    /\ branchMeta = <<>>
    /\ reBranches = <<>>
    /\ tree = NoTree
    /\ InitFacadeIdle
    /\ thr = <<>>

ConstructBranches ==
    /\ branches = <<>>
    /\ branches' = RegistryBranches(dimensions, depths[1], depths[2], depths[3])
    /\ UNCHANGED <<dimensions, depths, branchMeta, reBranches, fvars, thr>>

SaveBranches ==
    /\ branches # <<>>
    /\ branchMeta = <<>>
    /\ branchMeta' = [i \in 1 .. Len(branches) |-> BranchSave(branches[i], EmptyNode)]
    /\ UNCHANGED <<dimensions, depths, branches, reBranches, fvars, thr>>

ReloadBranches ==
    /\ branchMeta # <<>>
    /\ reBranches = <<>>
    /\ reBranches' = [i \in 1 .. Len(branchMeta) |-> BranchFromMeta(dimensions, branchMeta[i])]
    /\ UNCHANGED <<dimensions, depths, branches, branchMeta, fvars, thr>>

NextBranch == ConstructBranches \/ SaveBranches \/ ReloadBranches

SpecBranch == InitBranch /\ [][NextBranch]_vars

\* ----------------------------------------------- SleepyTree life cycle

Init ==
    /\ InitBranchIdle
    /\ \E cfg \in TierConfigs :
          tree = SleepyTree(RootBBox, RootSchema, cfg[1], cfg[2], cfg[3])
    /\ InitFacadeIdle
    /\ thr = <<>>

\* insert(pointBuffer, origin) is called.
InsertBegin(buffer, origin) ==
    /\ pc = "idle"
    /\ calls < MaxInserts
    /\ calls' = calls + 1
    /\ cur' = [buf |-> buffer, origin |-> origin, i |-> 0]
    /\ pc' = "insert"
    /\ synced' = FALSE
    /\ UNCHANGED <<tree, accepted, pending, metaFile, dirData, lastDoc, fresh, loadResult>>
    /\ UNCHANGED <<bvars, thr>>

\* One iteration of the loop of insert.
InsertStep ==
    /\ pc = "insert"
    /\ cur.i < Len(cur.buf)
    /\ tree' = InsertSample(tree, cur.buf, cur.i + 1, cur.origin)
    /\ accepted' = IF contains(tree.bbox, cur.buf[cur.i + 1]) THEN accepted + 1 ELSE accepted
    /\ cur' = [cur EXCEPT !.i = cur.i + 1]
    /\ UNCHANGED <<pc, calls, pending, metaFile, dirData, lastDoc, synced, fresh, loadResult>>
    /\ UNCHANGED <<bvars, thr>>

InsertReturn ==
    /\ pc = "insert"
    /\ cur.i = Len(cur.buf)
    /\ pc' = "idle"
    /\ cur' = NoCall
    /\ UNCHANGED <<tree, calls, accepted, pending, metaFile, dirData, lastDoc, synced,
                   fresh, loadResult>>
    /\ UNCHANGED <<bvars, thr>>

\* save(): addMeta and Registry::save (the tiers persist their slots).
SaveBegin ==
    /\ pc = "idle"
    /\ pending' = SaveDocument(tree)
    /\ dirData' = tree.registry.occ
    /\ pc' = "saveOpen"
    /\ synced' = FALSE
    /\ fresh' = NoTree
    /\ loadResult' = "none"
    /\ UNCHANGED <<tree, cur, calls, accepted, metaFile, lastDoc>>
    /\ UNCHANGED <<bvars, thr>>

\* std::ofstream metaStream(metaPath(), out | trunc) opens: the file is now empty.
SaveOpen ==
    /\ pc = "saveOpen"
    /\ metaFile' = FileOf(<<>>)
    /\ pc' = "saveWrite"
    /\ UNCHANGED <<tree, cur, calls, accepted, pending, dirData, lastDoc, synced,
                   fresh, loadResult>>
    /\ UNCHANGED <<bvars, thr>>

\* The stream is not good: "Could not open" is thrown to the caller.
SaveOpenFail ==
    /\ pc = "saveOpen"
    /\ pc' = "idle"
    /\ pending' = EmptyNode
    /\ UNCHANGED <<tree, cur, calls, accepted, metaFile, dirData, lastDoc, synced,
                   fresh, loadResult>>
    /\ UNCHANGED <<bvars, thr>>

\* metaStream.write(...) and the stream's destructor: the document is on disk.
SaveWrite ==
    /\ pc = "saveWrite"
    /\ metaFile' = FileOf(toStyledString(pending))
    /\ lastDoc' = toStyledString(pending)
    /\ pc' = "idle"
    /\ pending' = EmptyNode
    /\ synced' = TRUE
    /\ UNCHANGED <<tree, cur, calls, accepted, dirData, fresh, loadResult>>
    /\ UNCHANGED <<bvars, thr>>

\* The process is interrupted after Registry::save, before the stream is opened.
CrashBeforeOpen ==
    /\ pc = "saveOpen"
    /\ pc' = "crashed"
    /\ UNCHANGED <<tree, cur, calls, accepted, pending, metaFile, dirData, lastDoc,
                   synced, fresh, loadResult>>
    /\ UNCHANGED <<bvars, thr>>

\* The process is interrupted after the stream was opened, with the first n
\* pieces of the document written.
CrashDuringWrite(n) ==
    /\ pc = "saveWrite"
    /\ n < Len(toStyledString(pending))
    /\ metaFile' = FileOf(SubSeq(toStyledString(pending), 1, n))
    /\ pc' = "crashed"
    /\ UNCHANGED <<tree, cur, calls, accepted, pending, dirData, lastDoc, synced,
                   fresh, loadResult>>
    /\ UNCHANGED <<bvars, thr>>

CanLoad == pc \in {"idle", "crashed"} /\ loadResult = "none"

\* SleepyTree(dir): load() cannot open <dir>/meta and throws "Could not open".
LoadOpenFail ==
    /\ CanLoad
    /\ loadResult' = "error"
    /\ fresh' = NoTree
    /\ UNCHANGED <<tree, pc, cur, calls, accepted, pending, metaFile, dirData, lastDoc, synced>>
    /\ UNCHANGED <<bvars, thr>>

\* SleepyTree(dir): load() opens <dir>/meta and runs to its end.
Load ==
    /\ CanLoad
    /\ metaFile.exists
    /\ fresh' = LoadFrom(metaFile.text, dirData)
    /\ loadResult' = "ok"
    /\ UNCHANGED <<tree, pc, cur, calls, accepted, pending, metaFile, dirData, lastDoc, synced>>
    /\ UNCHANGED <<bvars, thr>>

Next ==
    \/ \E buffer \in Buffers, origin \in Origins : InsertBegin(buffer, origin)
    \/ InsertStep
    \/ InsertReturn
    \/ SaveBegin
    \/ SaveOpen
    \/ SaveOpenFail
    \/ SaveWrite
    \/ CrashBeforeOpen
    \/ \E n \in 0 .. (Len(KeyOrder) + 1) : CrashDuringWrite(n)
    \/ LoadOpenFail
    \/ Load

Spec == Init /\ [][Next]_vars

\* ----------------------------------------------- concurrent ingestion

InitConc ==
    /\ InitBranchIdle
    /\ \E cfg \in TierConfigs :
          tree = SleepyTree(RootBBox, RootSchema, cfg[1], cfg[2], cfg[3])
    /\ InitFacadeIdle
    /\ thr \in [Threads -> [pc : {"loop"}, buf : Buffers, i : {0}, reg : {0}]]

\* Loop test and, for a sample the bbox contains, Registry::put (which takes
\* its own locks); a sample outside is skipped.
ThreadSample(t) ==
    /\ thr[t].pc = "loop"
    /\ thr[t].i < Len(thr[t].buf)
    /\ LET point == thr[t].buf[thr[t].i + 1] IN
       IF contains(tree.bbox, point)
           THEN /\ tree' = [tree EXCEPT !.registry =
                               RegistryPut(tree.registry, PointInfo(point, t),
                                           RootRoller(tree.bbox))]
                /\ thr' = [thr EXCEPT ![t].pc = "load"]
           ELSE /\ thr' = [thr EXCEPT ![t].i = thr[t].i + 1]
                /\ UNCHANGED tree
    /\ UNCHANGED <<pc, cur, calls, accepted, pending, metaFile, dirData, lastDoc,
                   synced, fresh, loadResult>>
    /\ UNCHANGED bvars

\* ++m_numPoints, first half: m_numPoints is read.
ThreadLoadCounter(t) ==
    /\ thr[t].pc = "load"
    /\ thr' = [thr EXCEPT ![t].reg = tree.numPoints, ![t].pc = "store"]
    /\ UNCHANGED <<fvars, bvars>>

\* ++m_numPoints, second half: the incremented value is written back.
ThreadStoreCounter(t) ==
    /\ thr[t].pc = "store"
    /\ tree' = [tree EXCEPT !.numPoints = (thr[t].reg + 1) % IndexLimit]
    /\ thr' = [thr EXCEPT ![t].pc = "loop", ![t].i = thr[t].i + 1]
    /\ UNCHANGED <<pc, cur, calls, accepted, pending, metaFile, dirData, lastDoc,
                   synced, fresh, loadResult>>
    /\ UNCHANGED bvars

ThreadReturn(t) ==
    /\ thr[t].pc = "loop"
    /\ thr[t].i = Len(thr[t].buf)
    /\ thr' = [thr EXCEPT ![t].pc = "done"]
    /\ UNCHANGED <<fvars, bvars>>

NextConc ==
    \E t \in Threads :
        \/ ThreadSample(t)
        \/ ThreadLoadCounter(t)
        \/ ThreadStoreCounter(t)
        \/ ThreadReturn(t)

SpecConc == InitConc /\ [][NextConc]_vars

\* ====================================================== properties: Branch

\* The address recurrence Addr(0) = 0, Addr(i+1) = Addr(i) * 2^D + 1 over the
\* mathematical integers.  Every address that does not fit the index type is
\* reported as IndexLimit ("exceeds capacity"), which keeps the numbers small.
RECURSIVE Addr(_, _)
Addr(depth, D) ==
    IF depth = 0 THEN 0 ELSE Min(Addr(depth - 1, D) * Pow2(D) + 1, IndexLimit)

Overflows(depth, D) == Addr(depth, D) >= IndexLimit

Constructed == branches # <<>>

Acceptors(brs, index) == { j \in DOMAIN brs : accepts(brs[j], index) }

\* C1: the three Branches over [0,b), [b,f), [f,k) partition the index space:
\* every index below Addr(k) is accepted by exactly one Branch, no index at or
\* above Addr(k) is accepted by any, and each Branch's indexEnd is the next
\* Branch's indexBegin -- for any dimensionality and any tier boundaries.
C1_Partition ==
    Constructed =>
        /\ \A index \in IndexType :
              IF index < Addr(depths[3], dimensions)
                  THEN Cardinality(Acceptors(branches, index)) = 1
                  ELSE Acceptors(branches, index) = {}
        /\ \A j \in 1 .. (Len(branches) - 1) :
              branches[j].indexEnd = branches[j + 1].indexBegin

AddrTableD2 == <<0, 1, 5, 21, 85>>

\* C2: wherever Addr(depth) fits the index type, getOffset(depth, D) returns
\* Addr(depth); for D = 2 the values at depths 0..4 are 0, 1, 5, 21, 85; and the
\* result strictly increases with depth.
C2_GetOffsetIsAddr ==
    \A j \in DOMAIN branches :
        LET br == branches[j] IN
        /\ ~Overflows(br.depthBegin, dimensions)
              => br.indexBegin = Addr(br.depthBegin, dimensions)
        /\ ~Overflows(br.depthEnd, dimensions)
              => br.indexEnd = Addr(br.depthEnd, dimensions)
        /\ (dimensions = 2 /\ br.depthEnd < Len(AddrTableD2) /\ ~Overflows(br.depthEnd, dimensions))
              => br.indexEnd = AddrTableD2[br.depthEnd + 1]
        /\ (br.depthBegin < br.depthEnd /\ ~Overflows(br.depthEnd, dimensions))
              => br.indexBegin < br.indexEnd

C2_Witness ==
    /\ Constructed
    /\ dimensions = 2
    /\ depths = <<0, 2, 4>>
    /\ branches[2].indexBegin = 0 /\ branches[2].indexEnd = 5
    /\ branches[3].indexEnd = 85

\* C4: a depth whose address exceeds the capacity of the index type is detected
\* before use: no Branch exists whose indexBegin or indexEnd was computed from
\* such a depth (and so holds the wrapped value).
C4_OverflowDetected ==
    \A j \in DOMAIN branches :
        /\ ~Overflows(branches[j].depthBegin, dimensions)
        /\ ~Overflows(branches[j].depthEnd, dimensions)

\* C9: a Branch saved into a metadata node and reconstructed from it under the
\* same dimensionality has the same depth bounds, index bounds and size, and
\* accepts the same indices; the node holds the two depth bounds and nothing
\* else of the Branch's state.
C9_BranchRoundTrip ==
    \A j \in DOMAIN reBranches :
        LET old == branches[j]
            new == reBranches[j]
            node == branchMeta[j]
        IN  /\ new.depthBegin = old.depthBegin
            /\ new.depthEnd = old.depthEnd
            /\ new.indexBegin = old.indexBegin
            /\ new.indexEnd = old.indexEnd
            /\ size(new) = size(old)
            /\ \A index \in IndexType : accepts(new, index) <=> accepts(old, index)
            /\ DOMAIN node = {"depthBegin", "depthEnd"}
            /\ node["depthBegin"] = JsonUInt(old.depthBegin)
            /\ node["depthEnd"] = JsonUInt(old.depthEnd)

C9_Witness ==
    /\ reBranches # <<>>
    /\ depths = <<1, 2, 3>>
    /\ dimensions = 2
    /\ reBranches[3].depthBegin = 2 /\ reBranches[3].depthEnd = 3
    /\ reBranches[3].indexBegin = 5 /\ reBranches[3].indexEnd = 21
    /\ size(reBranches[3]) = 16

\* ====================================================== properties: SleepyTree

AllDepths == 0 .. MaxDepth

\* C3: a tree constructed from the directory after a completed save, with no
\* insert in between, has the bounds, the point count and the query results of
\* the saved tree, and a Registry built from the same three tier depths.
C3_SaveLoadRoundTrip ==
    (synced /\ loadResult = "ok") =>
        /\ getBounds(fresh) = getBounds(tree)
        /\ numPoints(fresh) = numPoints(tree)
        /\ \A d0 \in AllDepths, d1 \in AllDepths :
              getPoints(fresh, d0, d1) = getPoints(tree, d0, d1)
        /\ fresh.registry.depths = tree.registry.depths

\* C5: when a save is interrupted after an earlier save had completed, the
\* metadata file holds the complete earlier document or the complete new one.
C5_AtomicSave ==
    (pc = "crashed" /\ lastDoc # <<>>) =>
        /\ metaFile.exists
        /\ metaFile.text \in {lastDoc, toStyledString(pending)}

\* C6: constructing a tree from a directory whose metadata file is missing or
\* does not parse ends in a reported error, with no tree (and so no Registry)
\* built from it.
C6_LoadFailsOnBadMeta ==
    (loadResult # "none" /\ (~metaFile.exists \/ ~ParseOk(metaFile.text))) =>
        (loadResult = "error" /\ fresh = NoTree)

\* C7: numPoints() equals the number of samples processed so far that the root
\* bbox contains; it never decreases; and it grows by exactly one with each such
\* sample, whatever became of the sample's placement.
C7_NumPointsCountsAccepted ==
    [][ /\ numPoints(tree') = accepted'
        /\ numPoints(tree') >= numPoints(tree)
        /\ (pc = "insert" /\ cur.i < Len(cur.buf) /\ contains(tree.bbox, cur.buf[cur.i + 1]))
              => numPoints(tree') = numPoints(tree) + 1 ]_vars

\* Three contained samples were counted, and one of them found no free slot.
C7_Witness ==
    /\ pc = "insert"
    /\ accepted = 3
    /\ numPoints(tree) = 3
    /\ tree.registry.putCalls = 3
    /\ Cardinality(DOMAIN tree.registry.occ) < 3

\* C8: a sample outside the root bbox leaves the tree as it was (no put call,
\* numPoints and all occupants unchanged), raises nothing, and the loop moves on
\* to the next sample of the same buffer.
C8_OutsideSampleSkipped ==
    [][ (pc = "insert" /\ cur.i < Len(cur.buf) /\ ~contains(tree.bbox, cur.buf[cur.i + 1]))
            => /\ tree' = tree
               /\ pc' = "insert"
               /\ cur' = [cur EXCEPT !.i = cur.i + 1] ]_vars

\* An outside sample was passed over and the sample after it was placed.
C8_Witness ==
    /\ pc = "insert"
    /\ calls = 1
    /\ cur.buf = << <<9, 1>>, <<2, 2>> >>
    /\ cur.i = 2
    /\ numPoints(tree) = 1
    /\ tree.registry.putCalls = 1
    /\ DOMAIN tree.registry.occ = {0}

RECURSIVE CountInside(_, _, _)
CountInside(bbox, buf, n) ==
    IF n = 0 THEN 0
    ELSE CountInside(bbox, buf, n - 1) + (IF contains(bbox, buf[n]) THEN 1 ELSE 0)

RECURSIVE TotalInside(_)
TotalInside(t) ==
    IF t = 0 THEN 0
    ELSE TotalInside(t - 1) + CountInside(tree.bbox, thr[t].buf, Len(thr[t].buf))

\* C10: once every concurrent insert has returned, numPoints() is the number
\* of samples, over all sources, that the root bbox contains.
C10_NoLostIncrement ==
    (thr # <<>> /\ \A t \in DOMAIN thr : thr[t].pc = "done")
        => numPoints(tree) = TotalInside(Len(thr))

====
